---- MODULE Spec2Model ----
(***************************************************************************)
(* Model of the resampling-based inference engine of plspy:                *)
(*   src/plsrri/bootstrap_permutation.py  (permutation test, bootstrap     *)
(*                                         test, orchestrator)             *)
(*   src/pls/pls_classes.py               (mean-centred task PLS driver)   *)
(*                                                                         *)
(* Conventions of the model.                                               *)
(*  - A matrix is a sequence of rows; its shape is <<rows, columns>>.      *)
(*  - X and Y are known by the identity of their rows: X = <<1, 2>> is a   *)
(*    matrix whose rows are original rows 1 and 2; a resampled matrix is   *)
(*    the sequence of the original rows it was built from.                 *)
(*  - numpy's decomposition (np.linalg.svd) and the floating point values  *)
(*    it yields are outside the repository: a decomposition has the shape  *)
(*    numpy gives it and entries chosen from Vals.  Shapes, broadcasting,  *)
(*    counting, quantiles, standard errors and divisions are computed.     *)
(*  - The caller's preprocess function is opaque: it is known by the shape *)
(*    of the matrix it returns.                                            *)
(*  - A raised exception ends the call: pc = "error", err = its name.      *)
(***************************************************************************)
EXTENDS Integers, Sequences, FiniteSets, TLC

(* ------------------------------ bounds -------------------------------- *)
\* largest iteration count a call is made with (the smallest is -1)
MaxIter == 2
\* rotation modes tried: 0, 1, 2 are implemented, the others are not
MaxRot == 3
\* largest number of groups
MaxGroups == 2
\* largest number of conditions the driver is constructed with
MaxCond == 2
\* entries of decomposed matrices and of singular-value vectors
Vals == {0, 1}

\* None, an attribute or local not yet assigned, and a slot not yet written are
\* all the empty sequence, which no matrix, vector or result is
None == <<>>
NaN == [kind |-> "nan"]
Inf == [kind |-> "inf"]
Bad == <<0, 0>>

(* ------------------------ shapes, as numpy has them ------------------- *)
Min2(a, b) == IF a <= b THEN a ELSE b

Shape(M) == <<Len(M), Len(M[1])>>
Mats(sh) == [1..sh[1] -> [1..sh[2] -> Vals]]
Vecs(n) == [1..n -> Vals]

\* M.T
Tr(sh) == <<sh[2], sh[1]>>
\* A @ B: the inner dimensions must agree (else numpy raises ValueError)
MatMul(a, b) == IF a = Bad \/ b = Bad \/ a[2] # b[1] THEN Bad ELSE <<a[1], b[2]>>
\* np.linalg.svd(M, full_matrices=False) -> U (m,k), s (k,), Vh (k,n), k = min(m,n)
SvdU(sh) == IF sh = Bad THEN Bad ELSE <<sh[1], Min2(sh[1], sh[2])>>
SvdS(sh) == Min2(sh[1], sh[2])
SvdVh(sh) == IF sh = Bad THEN Bad ELSE <<Min2(sh[1], sh[2]), sh[2]>>

\* numpy broadcasting of a source of shape src into a target of shape dst
\* (an assignment dst[...] = src, or an in-place dst += src)
BroadcastsTo(src, dst) ==
    /\ src[1] = dst[1] \/ src[1] = 1
    /\ src[2] = dst[2] \/ src[2] = 1
\* the entry of src that lands at position (r, c) of the target
BroadcastAt(M, r, c) ==
    M[IF Len(M) = 1 THEN 1 ELSE r][IF Len(M[1]) = 1 THEN 1 ELSE c]

(* ------------------------------ floats -------------------------------- *)
\* a / b in IEEE arithmetic on integers a, b: no exception, 0/0 is NaN
Quot(a, b) ==
    IF b = 0 THEN (IF a = 0 THEN NaN ELSE Inf)
    ELSE [kind |-> "fin", num |-> a, den |-> b]

(* ------------------------------ resampler ----------------------------- *)
\* the block of a row: its group and its condition label
RowBlocks(cond_order) ==
    LET Flat[g \in 0..Len(cond_order)] ==
            IF g = 0 THEN <<>>
            ELSE Flat[g - 1] \o [k \in 1..Len(cond_order[g]) |-> <<g, cond_order[g][k]>>]
    IN Flat[Len(cond_order)]

\* resample.resample_without_replacement(matrix, cond_order): every result
\* the resampler can give, a permutation of the rows within each block
resample_without_replacement(M, cond_order) ==
    LET B == RowBlocks(cond_order)
        n == Len(M)
    IN { [r \in 1..n |-> M[p[r]]] :
           p \in { q \in [1..n -> 1..n] :
                     /\ \A r \in 1..n : B[q[r]] = B[r]
                     /\ \A a, b \in 1..n : a # b => q[a] # q[b] } }

\* resample.resample_with_replacement(matrix, cond_order): every result the
\* resampler can give, rows drawn with replacement within each block
resample_with_replacement(M, cond_order) ==
    LET B == RowBlocks(cond_order)
        n == Len(M)
    IN { [r \in 1..n |-> M[p[r]]] :
           p \in { q \in [1..n -> 1..n] : \A r \in 1..n : B[q[r]] = B[r] } }

(* ------------------------------- state -------------------------------- *)
VARIABLES
    pc,                \* "load" (module import), "idle", "perm" (permutation loop), "boot" (bootstrap loop), "done", "error"
    caller,            \* who runs the engine: "init" (the constructor) or "static" (a direct call)
    cargs,             \* the arguments of the constructor call that is running
    eargs,             \* the arguments of the engine call that is running
    i,                 \* iterations of the running loop completed so far
    greatersum,        \* _permutation_test: the exceedance counts
    s_hat,             \* _permutation_test: singular values of the last resampled matrix
    X_new,             \* the last resampled X (the original rows it is made of)
    Y_new,             \* the last resampled Y, None when Y is None
    left_sv_sampled,   \* _bootstrap_test: one slot per iteration, shaped like U
    right_sv_sampled,  \* _bootstrap_test: one slot per iteration, shaped like V
    self,              \* the attributes of the _ResampleTestTaskPLS instance
    ret,               \* the value a direct engine call returned
    err,               \* the exception that ended the call, "none" if none
    calls,             \* the engine calls made so far, each <<engine, arguments>>
    drv,               \* the attributes of the _MeanCenterTaskSingleGroupPLS instance
    subclasses,        \* _subclasses of ResampleTest and of PLSBase: key -> registered class
    request            \* the last _create call, <<base class, pls_method>>, None if none

vars == <<pc, caller, cargs, eargs, i, greatersum, s_hat, X_new, Y_new,
          left_sv_sampled, right_sv_sampled, self, ret, err, calls, drv,
          subclasses, request>>

Unset == <<>>
Empty == <<>>

NoArgs == [none |-> TRUE]

NoSelf == [dist |-> Unset, permute_ratio |-> Unset, conf_ints |-> Unset,
           std_errs |-> Unset, boot_ratios |-> Unset]

NoDriver == [X |-> Unset, groups_sizes |-> Unset, num_groups |-> Unset,
             num_conditions |-> Unset, cond_order |-> Unset, num_perm |-> Unset,
             num_boot |-> Unset, X_mc |-> Unset, U |-> Unset, X_latent |-> Unset,
             resample_tests |-> Unset]

(* ------------------------------ registries ---------------------------- *)
\* the keys of _pls_types, the same in ResampleTest and in PLSBase
pls_types == {"mct", "nrt", "rb", "mb", "nrb", "nrmb"}

\* the decorators applied while the modules are imported, in the order they
\* run: pls_classes imports bootstrap_permutation first, and stacked
\* decorators apply from the bottom: <<base class, pls_method, subclass>>
Decorators ==
    << <<"ResampleTest", "rb", "_ResampleTestTaskPLS">>,
       <<"ResampleTest", "mct", "_ResampleTestTaskPLS">>,
       <<"PLSBase", "mct", "_MeanCenterTaskSingleGroupPLS">> >>

\* _subclasses = {} in both class bodies
NoSubclasses == [ResampleTest |-> [k \in {} |-> ""], PLSBase |-> [k \in {} |-> ""]]

\* cls._subclasses[pls_method] = subclass
register_subclass(reg, cls, pls_method, subclass) ==
    [reg EXCEPT ![cls] = [k \in DOMAIN reg[cls] \cup {pls_method} |->
                             IF k = pls_method THEN subclass ELSE reg[cls][k]]]

\* the registries once the first n decorators have run
RegisteredAfter(n) ==
    LET R[k \in 0..n] ==
            IF k = 0 THEN NoSubclasses
            ELSE register_subclass(R[k - 1], Decorators[k][1], Decorators[k][2],
                                   Decorators[k][3])
    IN R[n]

\* the modules are imported: every decorator has run
Init ==
    /\ subclasses = RegisteredAfter(Len(Decorators))
    /\ request = None
    /\ pc = "idle"
    /\ caller = "none"
    /\ cargs = NoArgs
    /\ eargs = NoArgs
    /\ i = 0
    /\ greatersum = Unset
    /\ s_hat = Unset
    /\ X_new = Unset
    /\ Y_new = Unset
    /\ left_sv_sampled = Unset
    /\ right_sv_sampled = Unset
    /\ self = NoSelf
    /\ ret = Unset
    /\ err = "none"
    /\ calls = <<>>
    /\ drv = NoDriver

\* the engine that was called last: "perm", "boot" or "none"
Engine == IF calls = <<>> THEN "none" ELSE calls[Len(calls)][1]

(* -------------------------- permutation engine ------------------------ *)
\* PermRotate with an unsupported rotate_method falling through to mode 0
PermRotate_Fallthrough(rotate_method, psh, Vsh) ==
    CASE rotate_method = 1 ->
           LET permuted_rot ==
                   MatMul(psh, MatMul(SvdVh(psh),
                       MatMul(SvdU(MatMul(Tr(Vsh), SvdVh(psh))), Tr(Vsh))))
           IN IF permuted_rot = Bad THEN [err |-> "ValueError", len |-> 0]
              ELSE [err |-> "none", len |-> permuted_rot[1]]
      [] rotate_method = 2 ->
           IF MatMul(psh, Vsh) = Bad THEN [err |-> "ValueError", len |-> 0]
           ELSE [err |-> "none", len |-> Vsh[2]]
      [] OTHER ->
           [err |-> "none", len |-> SvdS(psh)]

\* the rotate_method branch of _permutation_test: the length of s_hat for a
\* preprocessed matrix of shape psh and a reference V of shape Vsh, or the
\* exception the branch raises
PermRotate(rotate_method, psh, Vsh) ==
    CASE rotate_method = 0 ->
           [err |-> "none", len |-> SvdS(psh)]
      [] rotate_method = 1 ->
           LET V_hat == SvdVh(psh)
               U_bar == SvdU(MatMul(Tr(Vsh), V_hat))
               rot == MatMul(U_bar, Tr(Vsh))
               V_rot == MatMul(V_hat, rot)
               permuted_rot == MatMul(psh, V_rot)
           IN IF permuted_rot = Bad THEN [err |-> "ValueError", len |-> 0]
              \* axis 0 of permuted_rot.T: one entry per row of permuted_rot
              ELSE [err |-> "none", len |-> Tr(permuted_rot)[2]]
      [] rotate_method = 2 ->
           LET US_hat == MatMul(psh, Vsh)
           IN IF US_hat = Bad THEN [err |-> "ValueError", len |-> 0]
              ELSE [err |-> "none", len |-> US_hat[2]]
      [] OTHER ->
           [err |-> "NotImplementedError", len |-> 0]

\* Accumulate counting s_hat > s: a tie is not an exceedance
Accumulate_Strict(gs, sh, s) ==
    [j \in 1..Len(s) |->
        gs[j] + (IF sh[IF Len(sh) = 1 THEN 1 ELSE j] > s[j] THEN 1 ELSE 0)]

\* s_hat >= s added in place to greatersum (shaped like s): numpy broadcasts
\* a length-1 s_hat and raises ValueError for any other length mismatch
CanAccumulate(sh, s) == Len(sh) = Len(s) \/ Len(sh) = 1

Accumulate(gs, sh, s) ==
    [j \in 1..Len(s) |->
        gs[j] + (IF sh[IF Len(sh) = 1 THEN 1 ELSE j] >= s[j] THEN 1 ELSE 0)]

\* PermuteRatio dividing by one more than the iteration count
PermuteRatio_OffByOne(gs, niter) == [j \in 1..Len(gs) |-> Quot(gs[j], niter + 1)]

\* greatersum / niter, element-wise
PermuteRatio(gs, niter) == [j \in 1..Len(gs) |-> Quot(gs[j], niter)]

\* np.zeros(s.shape)
Zeros(s) == [j \in 1..Len(s) |-> 0]

Raise(e) == pc' = "error" /\ err' = e

\* a direct call of the static method _permutation_test
PermutationTestCall(a) ==
    /\ pc = "idle"
    /\ caller' = "static"
    /\ eargs' = a
    /\ calls' = Append(calls, <<"perm", a>>)
    /\ greatersum' = Zeros(a.s)
    /\ i' = 0
    /\ pc' = "perm"
    /\ UNCHANGED <<cargs, s_hat, X_new, Y_new, left_sv_sampled, right_sv_sampled, self, ret, err>>
    /\ UNCHANGED <<drv, subclasses, request>>

\* one iteration of the loop of _permutation_test
PermIter ==
    /\ pc = "perm"
    /\ i < eargs.niter
    /\ \E xn \in resample_without_replacement(eargs.X, eargs.cond_order) :
       \E yn \in (IF eargs.Y = None THEN {None}
                  ELSE resample_without_replacement(eargs.Y, eargs.cond_order)) :
         /\ X_new' = xn
         /\ Y_new' = yn
         /\ LET d == PermRotate(eargs.rotate_method, eargs.preprocess.shape, Shape(eargs.V))
            IN IF d.err # "none"
               THEN /\ Raise(d.err)
                    /\ UNCHANGED <<greatersum, s_hat, i>>
               ELSE \E sh \in Vecs(d.len) :
                      /\ s_hat' = sh
                      /\ IF CanAccumulate(sh, eargs.s)
                         THEN /\ greatersum' = Accumulate(greatersum, sh, eargs.s)
                              /\ i' = i + 1
                              /\ UNCHANGED <<pc, err>>
                         ELSE /\ Raise("ValueError")
                              /\ UNCHANGED <<greatersum, i>>
    /\ UNCHANGED <<caller, cargs, eargs, left_sv_sampled, right_sv_sampled, self, ret, calls>>
    /\ UNCHANGED <<drv, subclasses, request>>

(* --------------------------- bootstrap engine ------------------------- *)
\* the rotate_method branch of _bootstrap_test for a preprocessed matrix of
\* shape psh and references of shapes Ush, Vsh: the shapes of U_hat and
\* V_hat, or the exception the branch raises.  In mode 2 slen is the length
\* of the derived s_hat, whose diagonal matrix is inverted.
BootRotate(rotate_method, psh, Ush, Vsh) ==
    CASE rotate_method = 0 ->
           [err |-> "none", U_hat |-> SvdU(psh), V_hat |-> Tr(SvdVh(psh)), slen |-> 0]
      [] rotate_method = 1 ->
           IF MatMul(Tr(Vsh), SvdVh(psh)) = Bad
           THEN [err |-> "ValueError", U_hat |-> Bad, V_hat |-> Bad, slen |-> 0]
           ELSE [err |-> "none", U_hat |-> SvdU(psh), V_hat |-> SvdVh(psh), slen |-> 0]
      [] rotate_method = 2 ->
           LET US_hat == MatMul(Tr(Vsh), Tr(psh))
               inv == <<US_hat[2], US_hat[2]>>
               V_hat == Tr(MatMul(inv, MatMul(Tr(Ush), psh)))
           IN IF US_hat = Bad
              THEN [err |-> "ValueError", U_hat |-> Bad, V_hat |-> Bad, slen |-> 0]
              ELSE [err |-> IF V_hat = Bad THEN "ValueError" ELSE "none",
                    U_hat |-> US_hat, V_hat |-> V_hat, slen |-> US_hat[2]]
      [] OTHER ->
           [err |-> "NotImplementedError", U_hat |-> Bad, V_hat |-> Bad, slen |-> 0]

\* np.linalg.inv(np.diag(s_hat)) raises LinAlgError when an entry is zero
Singular(sh) == \E j \in 1..Len(sh) : sh[j] = 0

\* np.empty((niter, rows, cols)): niter slots, nothing written yet
EmptySlots(niter) == [k \in 1..niter |-> Empty]

\* WriteSlot ignoring the iteration index: every write goes to the first slot
WriteSlot_First(slots, k, M, sh) ==
    [slots EXCEPT ![1] = [r \in 1..sh[1] |-> [c \in 1..sh[2] |-> BroadcastAt(M, r, c)]]]

\* slots[i] = M for a slot of shape sh: M is broadcast to the slot's shape
\* (slot i of the code is slot i + 1 of the sequence)
WriteSlot(slots, k, M, sh) ==
    [slots EXCEPT ![k] = [r \in 1..sh[1] |-> [c \in 1..sh[2] |-> BroadcastAt(M, r, c)]]]

\* the values position (r, c) takes across the iteration axis
Across(slots, r, c) == [k \in 1..Len(slots) |-> slots[k][r][c]]

Sum(xs) ==
    LET S[k \in 0..Len(xs)] == IF k = 0 THEN 0 ELSE S[k - 1] + xs[k]
    IN S[Len(xs)]

\* resample.confidence_interval's default quantile pair, in hundredths
DefaultConf == <<5, 95>>

\* the q-th percentile (q in hundredths) of xs with linear interpolation, times 100
Quantile(xs, q) ==
    LET srt == SortSeq(xs, LAMBDA a, b : a < b)
        h == q * (Len(xs) - 1)
        lo == h \div 100
        fr == h % 100
    IN IF fr = 0 THEN 100 * srt[lo + 1]
       ELSE 100 * srt[lo + 1] + fr * (srt[lo + 2] - srt[lo + 1])

\* resample.confidence_interval(matrix, conf): the element-wise conf[1] and
\* conf[2] quantiles across the iteration axis, as <<lower, upper>>
confidence_interval(slots, conf, sh) ==
    << [r \in 1..sh[1] |-> [c \in 1..sh[2] |-> Quantile(Across(slots, r, c), conf[1])]],
       [r \in 1..sh[1] |-> [c \in 1..sh[2] |-> Quantile(Across(slots, r, c), conf[2])]] >>

\* scipy.stats.sem of xs (ddof = 1): sqrt(sq.num / sq.den), NaN for one sample
Sem(xs) ==
    LET n == Len(xs)
    IN IF n = 1 THEN NaN
       ELSE [kind |-> "fin",
             sqnum |-> n * Sum([k \in 1..n |-> xs[k] * xs[k]]) - Sum(xs) * Sum(xs),
             sqden |-> n * n * (n - 1)]

\* scipy.stats.sem(right_sv_sampled, axis=0)
StdErrs(slots, sh) ==
    [r \in 1..sh[1] |-> [c \in 1..sh[2] |-> Sem(Across(slots, r, c))]]

\* Divide guarding the zero divisor: a zero entry of V gives the ratio 0
Divide_Clamped(a, b) ==
    IF b = 0 THEN [kind |-> "fin", sg |-> 0, sqnum |-> 0, sqden |-> 1]
    ELSE IF a = NaN THEN NaN
    ELSE [kind |-> "fin",
          sg |-> IF a.sqnum = 0 THEN 0 ELSE IF b > 0 THEN 1 ELSE -1,
          sqnum |-> a.sqnum, sqden |-> a.sqden * b * b]

\* np.divide(a, b) for one entry: a is a standard error, b an entry of V;
\* the quotient is sg * sqrt(sqnum / sqden); no exception on b = 0
Divide(a, b) ==
    IF a = NaN THEN NaN
    ELSE IF b = 0 THEN (IF a.sqnum = 0 THEN NaN ELSE Inf)
    ELSE [kind |-> "fin",
          sg |-> IF a.sqnum = 0 THEN 0 ELSE IF b > 0 THEN 1 ELSE -1,
          sqnum |-> a.sqnum, sqden |-> a.sqden * b * b]

\* boot_ratios = np.divide(std_errs, V)
BootRatios(std_errs, V) ==
    [r \in 1..Len(V) |-> [c \in 1..Len(V[1]) |-> Divide(std_errs[r][c], V[r][c])]]

\* a matrix of shape sh filled with NaN
NaNs(sh) == [r \in 1..sh[1] |-> [c \in 1..sh[2] |-> NaN]]

\* BootResult with the interval's bounds exchanged
BootResult_Swapped(left, right, a) ==
    IF Len(left) = 0
    THEN << <<NaNs(a.U), NaNs(a.U)>>, NaNs(Shape(a.V)), NaNs(Shape(a.V)) >>
    ELSE LET std_errs == StdErrs(right, Shape(a.V))
             ci == confidence_interval(left, DefaultConf, a.U)
         IN << <<ci[2], ci[1]>>, std_errs, BootRatios(std_errs, a.V) >>

\* the statements of _bootstrap_test after its loop: <<conf_int, std_errs, boot_ratios>>;
\* the statistics of no sample at all are NaN
BootResult(left, right, a) ==
    IF Len(left) = 0
    THEN << <<NaNs(a.U), NaNs(a.U)>>, NaNs(Shape(a.V)), NaNs(Shape(a.V)) >>
    ELSE LET std_errs == StdErrs(right, Shape(a.V))
         IN << confidence_interval(left, DefaultConf, a.U), std_errs,
               BootRatios(std_errs, a.V) >>

\* entering _bootstrap_test with arguments a: the slot arrays are allocated
\* (np.empty raises ValueError for a negative dimension)
EnterBootstrap(a) ==
    /\ eargs' = a
    /\ calls' = Append(calls, <<"boot", a>>)
    /\ i' = 0
    /\ IF a.niter < 0
       THEN /\ Raise("ValueError")
            /\ UNCHANGED <<left_sv_sampled, right_sv_sampled>>
       ELSE /\ left_sv_sampled' = EmptySlots(a.niter)
            /\ right_sv_sampled' = EmptySlots(a.niter)
            /\ pc' = "boot"
            /\ UNCHANGED err

\* a direct call of the static method _bootstrap_test
BootstrapTestCall(a) ==
    /\ pc = "idle"
    /\ caller' = "static"
    /\ EnterBootstrap(a)
    /\ UNCHANGED <<cargs, greatersum, s_hat, X_new, Y_new, self, ret>>
    /\ UNCHANGED <<drv, subclasses, request>>

\* one iteration of the loop of _bootstrap_test
BootIter ==
    /\ pc = "boot"
    /\ i < eargs.niter
    /\ \E xn \in resample_with_replacement(eargs.X, eargs.cond_order) :
       \E yn \in (IF eargs.Y = None THEN {None}
                  ELSE resample_with_replacement(eargs.Y, eargs.cond_order)) :
         /\ X_new' = xn
         /\ Y_new' = yn
         /\ LET d == BootRotate(eargs.rotate_method, eargs.preprocess.shape,
                                eargs.U, Shape(eargs.V))
            IN \E sh \in Vecs(d.slen) :
               IF d.err = "NotImplementedError" \/ (d.err # "none" /\ d.U_hat = Bad)
               THEN /\ Raise(d.err)
                    /\ UNCHANGED <<left_sv_sampled, right_sv_sampled, i>>
               ELSE IF Singular(sh)
               THEN /\ Raise("LinAlgError")
                    /\ UNCHANGED <<left_sv_sampled, right_sv_sampled, i>>
               ELSE IF d.err # "none" \/ ~BroadcastsTo(d.U_hat, eargs.U)
               THEN /\ Raise("ValueError")
                    /\ UNCHANGED <<left_sv_sampled, right_sv_sampled, i>>
               ELSE \E U_hat \in Mats(d.U_hat) :
                    /\ left_sv_sampled' = WriteSlot(left_sv_sampled, i + 1, U_hat, eargs.U)
                    /\ IF BroadcastsTo(d.V_hat, Shape(eargs.V))
                       THEN \E V_hat \in Mats(d.V_hat) :
                              /\ right_sv_sampled' =
                                   WriteSlot(right_sv_sampled, i + 1, V_hat, Shape(eargs.V))
                              /\ i' = i + 1
                              /\ UNCHANGED <<pc, err>>
                       ELSE /\ Raise("ValueError")
                            /\ UNCHANGED <<right_sv_sampled, i>>
    /\ UNCHANGED <<caller, cargs, eargs, greatersum, s_hat, self, ret, calls>>
    /\ UNCHANGED <<drv, subclasses, request>>

\* the loop of _bootstrap_test is over: the statistics are computed and
\* returned (to the constructor, which stores them, or to the direct caller).
\* With niter = 0 the quantiles are taken of an empty iteration axis: the
\* call either raises or yields NaN statistics, and both outcomes are kept.
BootReturn ==
    /\ pc = "boot"
    /\ ~(i < eargs.niter)
    /\ \E raises \in (IF eargs.niter = 0 THEN BOOLEAN ELSE {FALSE}) :
       IF raises
       THEN /\ Raise("IndexError")
            /\ UNCHANGED <<self, ret>>
       ELSE LET res == BootResult(left_sv_sampled, right_sv_sampled, eargs)
            IN /\ pc' = "done"
               /\ IF caller = "init"
                  THEN /\ self' = [self EXCEPT !.conf_ints = res[1], !.std_errs = res[2],
                                               !.boot_ratios = res[3]]
                       /\ UNCHANGED ret
                  ELSE /\ ret' = res
                       /\ UNCHANGED self
               /\ UNCHANGED err
    /\ UNCHANGED <<caller, cargs, eargs, i, greatersum, s_hat, X_new, Y_new,
                   left_sv_sampled, right_sv_sampled, calls>>
    /\ UNCHANGED <<drv, subclasses, request>>

(* ----------------------------- orchestrator --------------------------- *)
\* the arguments __init__ passes to _permutation_test
PermArgs(c) ==
    [X |-> c.X, Y |-> c.Y, U |-> c.U, s |-> c.s, V |-> c.V, cond_order |-> c.cond_order,
     ngroups |-> c.ngroups, niter |-> c.nperm, preprocess |-> c.preprocess,
     rotate_method |-> c.rotate_method]

\* BootArgs without rotate_method, which then takes its default 0
BootArgs_DefaultRotation(c, dist) ==
    [X |-> c.X, Y |-> c.Y, U |-> c.U, s |-> c.s, V |-> c.V, cond_order |-> c.cond_order,
     ngroups |-> c.ngroups, niter |-> c.nboot, preprocess |-> c.preprocess,
     rotate_method |-> 0, dist |-> dist]

\* the arguments __init__ passes to _bootstrap_test
BootArgs(c, dist) ==
    [X |-> c.X, Y |-> c.Y, U |-> c.U, s |-> c.s, V |-> c.V, cond_order |-> c.cond_order,
     ngroups |-> c.ngroups, niter |-> c.nboot, preprocess |-> c.preprocess,
     rotate_method |-> c.rotate_method, dist |-> dist]

\* _ResampleTestTaskPLS.__init__ up to the first iteration of the
\* permutation test; cargs keeps the constructor's arguments
Construct(c) ==
    /\ pc = "idle"
    /\ caller' = "init"
    /\ self' = [self EXCEPT !.dist = c.dist]
    /\ cargs' = c
    /\ eargs' = PermArgs(c)
    /\ calls' = Append(calls, <<"perm", PermArgs(c)>>)
    /\ greatersum' = Zeros(c.s)
    /\ i' = 0
    /\ pc' = "perm"
    /\ UNCHANGED <<s_hat, X_new, Y_new, left_sv_sampled, right_sv_sampled, ret, err, drv>>

\* the loop of _permutation_test is over: the ratio is returned; the
\* constructor stores it and calls _bootstrap_test
PermReturn ==
    /\ pc = "perm"
    /\ ~(i < eargs.niter)
    /\ LET permute_ratio == PermuteRatio(greatersum, eargs.niter)
       IN IF caller = "init"
          THEN /\ self' = [self EXCEPT !.permute_ratio = permute_ratio]
               /\ EnterBootstrap(BootArgs(cargs, self.dist))
               /\ UNCHANGED ret
          ELSE /\ ret' = permute_ratio
               /\ pc' = "done"
               /\ UNCHANGED <<self, eargs, i, err, calls, left_sv_sampled, right_sv_sampled>>
    /\ UNCHANGED <<caller, cargs, greatersum, s_hat, X_new, Y_new>>
    /\ UNCHANGED <<drv, subclasses, request>>

(* ------------------------------ PLS driver ---------------------------- *)
\* _get_groups_info(groups_tuple): <<groups_tuple, number of groups>>
GetGroupsInfo(groups_tuple) ==
    IF groups_tuple = None THEN << <<>>, 0 >> ELSE <<groups_tuple, Len(groups_tuple)>>

\* [k] * n
Repeat(k, n) == [j \in 1..n |-> k]

\* _get_cond_order(groups_tuple, num_conditions): group_list is appended to
\* cond_order inside the loop over the conditions, once per condition; the
\* appended object is the one list, so every copy ends with all the labels
GetCondOrder(groups_tuple, num_conditions) ==
    LET GroupList(g) ==
            LET L[k \in 0..num_conditions] ==
                    IF k = 0 THEN <<>> ELSE L[k - 1] \o Repeat(k - 1, groups_tuple[g])
            IN L[num_conditions]
        Order[g \in 0..Len(groups_tuple)] ==
            IF g = 0 THEN <<>>
            ELSE Order[g - 1] \o [k \in 1..num_conditions |-> GroupList(g)]
    IN Order[Len(groups_tuple)]

\* SingleGroup accepting any positive group count
SingleGroup_AtLeastOne(ngroups) == ngroups >= 1

\* the ngroups test of _mean_center, _run_pls and _compute_latents
SingleGroup(ngroups) == ngroups = 1

DriverStatics == {"_mean_center", "_run_pls", "_compute_latents"}

\* a direct call of the static method _mean_center, _run_pls or
\* _compute_latents (which) with the given group count
DriverStaticCall(which, ngroups) ==
    /\ pc = "idle"
    /\ caller' = which
    /\ cargs' = [ngroups |-> ngroups]
    /\ IF SingleGroup(ngroups)
       THEN /\ pc' = "done"
            /\ ret' = <<"computed">>
            /\ UNCHANGED err
       ELSE /\ Raise("NotImplementedError")
            /\ UNCHANGED ret
    /\ UNCHANGED <<eargs, i, greatersum, s_hat, X_new, Y_new, left_sv_sampled,
                   right_sv_sampled, self, calls, drv, subclasses, request>>

\* _MeanCenterTaskSingleGroupPLS.__init__: the attributes it sets before the
\* exception that ends it.  Y must be None; _mean_center and _run_pls get
\* ngroups=self.num_groups, _compute_latents is called without ngroups; the
\* module bootstrap_permutation has no attribute ResampleTestTaskPLS.
DriverInit(d) ==
    /\ pc = "idle"
    /\ caller' = "driver"
    /\ cargs' = d
    /\ LET info == GetGroupsInfo(d.groups_sizes)
           a0 == [NoDriver EXCEPT !.X = d.X]
           a1 == [a0 EXCEPT !.groups_sizes = info[1], !.num_groups = info[2],
                            !.num_conditions = d.num_conditions,
                            !.cond_order = IF d.cond_order = None
                                           THEN GetCondOrder(info[1], d.num_conditions)
                                           ELSE d.cond_order,
                            !.num_perm = d.num_perm, !.num_boot = d.num_boot]
           a2 == [a1 EXCEPT !.X_mc = <<"computed">>, !.U = <<"computed">>, !.X_latent = <<"computed">>]
       IN IF d.Y # None
          THEN drv' = a0 /\ Raise("ValueError")
          ELSE IF ~SingleGroup(info[2])
          THEN drv' = a1 /\ Raise("NotImplementedError")
          ELSE drv' = a2 /\ Raise("AttributeError")
    /\ UNCHANGED <<eargs, i, greatersum, s_hat, X_new, Y_new, left_sv_sampled,
                   right_sv_sampled, self, ret, calls>>

(* ------------------------------- inputs ------------------------------- *)
\* one group of two rows under one condition, or g groups of one row each
CondOrderOf(g) == IF g = 1 THEN <<<<0, 0>>>> ELSE [k \in 1..g |-> <<0>>]

\* a matrix with one row per entry of cond_order, known by its row numbers
RowsOf(cond_order) == [r \in 1..Len(RowBlocks(cond_order)) |-> r]

\* the shapes the caller's preprocess function returns
PShapes == {<<1, 1>>, <<2, 1>>, <<1, 2>>, <<2, 2>>}

\* reference decompositions: the shape of U, the vector s and the matrix V
Refs ==
    { [U |-> <<1, 1>>, s |-> <<1>>, V |-> <<<<1>>>>],
      [U |-> <<1, 1>>, s |-> <<0>>, V |-> <<<<0>>>>],
      [U |-> <<2, 1>>, s |-> <<1>>, V |-> <<<<1>>>>],
      [U |-> <<1, 1>>, s |-> <<1>>, V |-> <<<<1>>, <<0>>>>] }

\* reference decompositions with two singular values (in the bootstrap test
\* for one iteration only: the slots of a 2 x 2 decomposition take many values)
Refs2 ==
    { [U |-> <<2, 2>>, s |-> <<1, 0>>, V |-> <<<<1, 0>>, <<0, 1>>>>] }

\* the quantile pairs a caller asks for, in hundredths
Dists == {<<5, 95>>, <<50, 50>>}

Iters == (0 - 1)..MaxIter
Rots == 0..MaxRot
Groups == 1..MaxGroups

\* the direct engine calls of SpecEngines
PermCalls ==
    { [X |-> RowsOf(CondOrderOf(g)), Y |-> IF hasY THEN RowsOf(CondOrderOf(g)) ELSE None,
       U |-> ref.U, s |-> ref.s, V |-> ref.V,
       cond_order |-> CondOrderOf(g), ngroups |-> g, niter |-> n,
       preprocess |-> [shape |-> psh], rotate_method |-> rot] :
      g \in Groups, hasY \in BOOLEAN, ref \in Refs \cup Refs2, n \in Iters, psh \in PShapes,
      rot \in Rots }

BootCalls ==
    { [X |-> RowsOf(CondOrderOf(g)), Y |-> None, U |-> ref.U, s |-> ref.s, V |-> ref.V,
       cond_order |-> CondOrderOf(g), ngroups |-> g, niter |-> n,
       preprocess |-> [shape |-> psh], rotate_method |-> rot, dist |-> dist] :
      g \in Groups, ref \in Refs, n \in Iters, psh \in PShapes, rot \in Rots, dist \in Dists }
    \cup
    \* the 2 x 2 reference, for one iteration of a 2 x 2 preprocessed matrix
    { [X |-> RowsOf(CondOrderOf(g)), Y |-> None, U |-> ref.U, s |-> ref.s, V |-> ref.V,
       cond_order |-> CondOrderOf(g), ngroups |-> g, niter |-> 1,
       preprocess |-> [shape |-> <<2, 2>>], rotate_method |-> rot, dist |-> dist] :
      g \in Groups, ref \in Refs2, rot \in Rots, dist \in Dists }

\* direct calls of the two engines, over all the references and shapes
NextEngines ==
    \/ pc = "idle" /\ \E a \in PermCalls : PermutationTestCall(a)
    \/ pc = "idle" /\ \E a \in BootCalls : BootstrapTestCall(a)
    \/ PermIter
    \/ PermReturn
    \/ BootIter
    \/ BootReturn

SpecEngines == Init /\ [][NextEngines]_vars

\* the constructor calls of the main specification: the reference is the
\* 1 x 1 decomposition and the preprocessed matrix is 1 x 1
CtorCalls ==
    { [X |-> RowsOf(CondOrderOf(g)), Y |-> IF hasY THEN RowsOf(CondOrderOf(g)) ELSE None,
       U |-> ref.U, s |-> ref.s, V |-> ref.V,
       cond_order |-> CondOrderOf(g), preprocess |-> [shape |-> psh],
       nperm |-> np, nboot |-> nb, ngroups |-> g, dist |-> <<50, 50>>,
       rotate_method |-> rot] :
      g \in Groups, hasY \in BOOLEAN,
      ref \in {r \in Refs : r.U = <<1, 1>> /\ r.s = <<1>> /\ Shape(r.V) = <<1, 1>>},
      psh \in {<<1, 1>>}, np \in Iters, nb \in Iters, rot \in Rots }

\* the direct engine calls of the main specification: those without Y
DirectCalls == {c \in CtorCalls : c.Y = None}

\* the driver's constructor calls
DriverCalls ==
    { [X |-> <<1, 2>>, Y |-> y, groups_sizes |-> gs, num_conditions |-> nc,
       cond_order |-> co, num_perm |-> MaxIter, num_boot |-> MaxIter] :
      y \in {None, <<1, 2>>},
      gs \in {None} \cup UNION { [1..g -> 1..2] : g \in Groups },
      nc \in 1..MaxCond,
      co \in {None, <<<<0, 0>>>>} }

Next ==
    \/ pc = "idle" /\ \E c \in CtorCalls : Construct(c) /\ UNCHANGED <<subclasses, request>>
    \/ pc = "idle" /\ \E c \in DirectCalls : PermutationTestCall(PermArgs(c))
    \/ pc = "idle" /\ \E c \in DirectCalls : BootstrapTestCall(BootArgs(c, c.dist))
    \/ PermIter
    \/ PermReturn
    \/ BootIter
    \/ BootReturn
    \/ pc = "idle" /\ \E d \in DriverCalls : DriverInit(d) /\ UNCHANGED <<subclasses, request>>
    \/ \E which \in DriverStatics : \E g \in 0..MaxGroups : DriverStaticCall(which, g)

Spec == Init /\ [][Next]_vars

(* -------------------------- registries at work ------------------------ *)
\* the state while the modules are being imported: nothing registered yet
InitRegistry ==
    /\ subclasses = NoSubclasses
    /\ request = None
    /\ pc = "load"
    /\ caller = "none"
    /\ cargs = NoArgs
    /\ eargs = NoArgs
    /\ i = 0
    /\ greatersum = Unset
    /\ s_hat = Unset
    /\ X_new = Unset
    /\ Y_new = Unset
    /\ left_sv_sampled = Unset
    /\ right_sv_sampled = Unset
    /\ self = NoSelf
    /\ ret = Unset
    /\ err = "none"
    /\ calls = <<>>
    /\ drv = NoDriver

\* the number of decorators that have run
Registered ==
    Cardinality(DOMAIN subclasses.ResampleTest) + Cardinality(DOMAIN subclasses.PLSBase)

\* the next decorator runs; after the last one the import is over
Decorate ==
    /\ pc = "load"
    /\ LET d == Decorators[Registered + 1]
       IN subclasses' = register_subclass(subclasses, d[1], d[2], d[3])
    /\ pc' = IF Registered + 1 = Len(Decorators) THEN "idle" ELSE "load"
    /\ UNCHANGED <<caller, cargs, eargs, i, greatersum, s_hat, X_new, Y_new, left_sv_sampled,
                   right_sv_sampled, self, ret, err, calls, drv, request>>

\* an exception raised by _create itself, or by the call of the class
RaiseInCreate(pls_method, e) ==
    /\ Raise(e)
    /\ caller' = "_create"
    /\ cargs' = [pls_method |-> pls_method]
    /\ UNCHANGED <<eargs, i, greatersum, s_hat, X_new, Y_new, left_sv_sampled,
                   right_sv_sampled, self, ret, calls, drv>>

\* cls._create(pls_method, *a): a are the arguments of the constructor
create(cls, pls_method, a) ==
    /\ pc = "idle"
    /\ request' = <<cls, pls_method>>
    /\ UNCHANGED subclasses
    /\ IF pls_method \notin DOMAIN subclasses[cls] /\ pls_method \in pls_types
       THEN RaiseInCreate(pls_method, "NotImplementedError")
       ELSE IF pls_method \notin DOMAIN subclasses[cls]
       THEN RaiseInCreate(pls_method, "ValueError")
       ELSE LET subclass == subclasses[cls][pls_method]
            IN CASE subclass = "_ResampleTestTaskPLS" /\ "nperm" \in DOMAIN a -> Construct(a)
                 [] subclass = "_MeanCenterTaskSingleGroupPLS" /\ "num_perm" \in DOMAIN a ->
                      DriverInit(a)
                 [] OTHER -> RaiseInCreate(pls_method, "TypeError")

\* the keys _create is called with: those of _pls_types and one that is not
Keys == pls_types \cup {"pls"}

\* the constructor arguments _create is called with
CreateResampleArgs ==
    {c \in CtorCalls : c.Y = None /\ c.ngroups = 1 /\ c.nperm = 1 /\ c.nboot = 1}
CreatePLSArgs ==
    {d \in DriverCalls : d.cond_order = None /\ d.num_conditions = 1}

NextRegistry ==
    \/ Decorate
    \/ pc = "idle" /\ \E k \in Keys : \E c \in CreateResampleArgs : create("ResampleTest", k, c)
    \/ pc = "idle" /\ \E k \in Keys : \E d \in CreatePLSArgs : create("PLSBase", k, d)
    \/ PermIter
    \/ PermReturn
    \/ BootIter
    \/ BootReturn

SpecRegistry == InitRegistry /\ [][NextRegistry]_vars

(* ---------------- the derived singular values of mode 2 --------------- *)
\* A.T for a matrix with entries
Transpose(A) == [c \in 1..Len(A[1]) |-> [r \in 1..Len(A) |-> A[r][c]]]

\* A @ B for matrices with entries whose inner dimensions agree
Product(A, B) ==
    [r \in 1..Len(A) |-> [c \in 1..Len(B[1]) |->
        Sum([k \in 1..Len(B) |-> A[r][k] * B[k][c]])]]

\* np.sum(np.power(M, 2), axis=0): one entry per column of M.  The code
\* takes the square root of each entry; the model keeps the squares, which
\* are equal exactly when the roots are
SumSquaresAxis0(M) ==
    [c \in 1..Len(M[1]) |-> Sum([r \in 1..Len(M) |-> M[r][c] * M[r][c]])]

\* _permutation_test, rotate_method 2: US_hat = permuted @ V
PermDerived(permuted, V) == SumSquaresAxis0(Product(permuted, V))

\* _bootstrap_test, rotate_method 2: US_hat = V.T @ permuted.T
BootDerived(permuted, V) == SumSquaresAxis0(Product(Transpose(V), Transpose(permuted)))

\* the sizes of the preprocessed matrix (m x n) and of the reference V (n x k)
Dims == {1, 2}

\* a preprocessed resampled matrix and a reference V it can be multiplied with
DeriveInputs ==
    UNION { [permuted : Mats(<<m, n>>), V : Mats(<<n, k>>)] : m \in Dims, n \in Dims, k \in Dims }

InitDerive ==
    /\ eargs \in DeriveInputs
    /\ subclasses = RegisteredAfter(Len(Decorators))
    /\ request = None
    /\ pc = "idle"
    /\ caller = "none"
    /\ cargs = NoArgs
    /\ i = 0
    /\ greatersum = Unset
    /\ s_hat = Unset
    /\ X_new = Unset
    /\ Y_new = Unset
    /\ left_sv_sampled = Unset
    /\ right_sv_sampled = Unset
    /\ self = NoSelf
    /\ ret = Unset
    /\ err = "none"
    /\ calls = <<>>
    /\ drv = NoDriver

\* the mode 2 derivation of an engine ("perm" or "boot") applied to the inputs
Derive(engine) ==
    /\ pc = "idle"
    /\ s_hat' = IF engine = "perm" THEN PermDerived(eargs.permuted, eargs.V)
                ELSE BootDerived(eargs.permuted, eargs.V)
    /\ calls' = Append(calls, <<engine, eargs>>)
    /\ pc' = "derived"
    /\ UNCHANGED <<caller, cargs, eargs, i, greatersum, X_new, Y_new, left_sv_sampled,
                   right_sv_sampled, self, ret, err, drv, subclasses, request>>

NextDerive ==
    \/ Derive("perm")
    \/ Derive("boot")

SpecDerive == InitDerive /\ [][NextDerive]_vars

(* ------------------ the orientation of the stored vectors ------------- *)
\* what the two axes of a matrix run over, by name, through the operations
\* of _bootstrap_test: .T exchanges them, @ keeps the first of the left
\* operand and the second of the right, the decomposition of a matrix puts
\* the components second in U and first in Vh
AxesT(a) == <<a[2], a[1]>>
AxesMul(a, b) == <<a[1], b[2]>>
AxesSvdU(a) == <<a[1], "components">>
AxesSvdVh(a) == <<"components", a[2]>>

\* the axes of the U_hat and V_hat that _bootstrap_test stores in each mode;
\* dividing by s_hat and multiplying by inv(diag(s_hat)) scale and keep the axes
BootAxes(rotate_method) ==
    LET permuted == <<"rows", "variables">>
        U == <<"rows", "components">>
        V == <<"variables", "components">>
    IN CASE rotate_method = 0 ->
              [U_hat |-> AxesSvdU(permuted), V_hat |-> AxesT(AxesSvdVh(permuted))]
         [] rotate_method = 1 ->
              [U_hat |-> AxesSvdU(permuted), V_hat |-> AxesSvdVh(permuted)]
         [] rotate_method = 2 ->
              [U_hat |-> AxesMul(AxesT(V), AxesT(permuted)),
               V_hat |-> AxesT(AxesMul(AxesT(U), permuted))]

(* ============================== claims ================================ *)
PermDone == pc = "done" /\ Engine = "perm" /\ caller = "static"
BootDone == pc = "done" /\ Engine = "boot" /\ caller = "static"
Positions(sh) == (1..sh[1]) \X (1..sh[2])

\* C1: a call of _permutation_test with niter >= 1 and rotate_method 0, 1 or
\* 2 that returns, returns a ratio shaped like s whose every entry is
\* k / niter for an integer k with 0 <= k <= niter (0 or 1 when niter = 1).
C1_RatioIsCountOverIterations ==
    (PermDone /\ eargs.niter >= 1 /\ eargs.rotate_method \in {0, 1, 2}) =>
        /\ Len(ret) = Len(eargs.s)
        /\ \A j \in 1..Len(ret) :
              /\ ret[j].kind = "fin"
              /\ ret[j].den = eargs.niter
              /\ ret[j].num \in 0..eargs.niter
              /\ eargs.niter = 1 => ret[j].num \in {0, 1}

\* C1 witness: a two-iteration call returned a ratio with an entry 1/2
C1_Witness ==
    /\ PermDone /\ eargs.niter = 2 /\ eargs.rotate_method = 1
    /\ Len(eargs.s) = 2
    /\ ret[1] = [kind |-> "fin", num |-> 1, den |-> 2]

\* C5: a call with a non-positive iteration count never returns a result
\* (it raises instead).
C5_NonPositiveIterationsRaise ==
    (pc = "done" /\ Engine \in {"perm", "boot"}) => eargs.niter >= 1

\* C6: once an iteration has been completed, the decomposition of the
\* resampled matrix had exactly the shape of the reference: s_hat the length
\* of s (permutation test), U_hat and V_hat the shapes of U and V (bootstrap
\* test); a mismatch raises and is never broadcast.
C6_ShapeMismatchRaises ==
    /\ (Engine = "perm" /\ pc \in {"perm", "done"} /\ i >= 1) =>
          Len(s_hat) = Len(eargs.s)
    /\ (Engine = "boot" /\ pc \in {"boot", "done"} /\ i >= 1) =>
          LET d == BootRotate(eargs.rotate_method, eargs.preprocess.shape,
                              eargs.U, Shape(eargs.V))
          IN d.U_hat = eargs.U /\ d.V_hat = Shape(eargs.V)

\* C3: the interval _bootstrap_test (niter >= 1) returns is the pair of the dist[0] and
\* dist[1] quantiles of the left-vector slots (so equal bounds for equal
\* quantiles).
C3_IntervalAtCallerDist ==
    (BootDone /\ eargs.niter >= 1) =>
        /\ ret[1] = confidence_interval(left_sv_sampled, eargs.dist, eargs.U)
        /\ eargs.dist[1] = eargs.dist[2] => ret[1][1] = ret[1][2]

C8_ZeroReferenceGivesNonFinite ==
    /\ BootDone =>
          \A p \in Positions(Shape(eargs.V)) :
              eargs.V[p[1]][p[2]] = 0 => ret[3][p[1]][p[2]].kind \in {"inf", "nan"}
    /\ (Engine = "boot" /\ pc = "error" /\ eargs.niter >= 1) => i < eargs.niter

\* C8 witness: an infinite ratio at a zero of V, beside a finite one
C8_Witness ==
    /\ BootDone
    /\ \E p \in Positions(Shape(eargs.V)) :
          eargs.V[p[1]][p[2]] = 0 /\ ret[3][p[1]][p[2]] = Inf
    /\ \E p \in Positions(Shape(eargs.V)) : ret[3][p[1]][p[2]].kind = "fin"

Unsupported(rotate_method) == rotate_method \notin {0, 1, 2}
SlotsEmpty(slots) == \A k \in 1..Len(slots) : slots[k] = Empty

\* C2: when Y is given, the resampled Y of an iteration is made of the same
\* original rows, in the same order, as the resampled X of that iteration.
C2_SameRowSelection ==
    (Engine \in {"perm", "boot"} /\ eargs.Y # None /\ X_new # Unset) => Y_new = X_new

\* C4: an engine called with an unsupported rotate_method and niter >= 1
\* ends in NotImplementedError with no iteration completed, no count added,
\* no slot written and nothing returned; a constructor so called (nperm >= 1)
\* sets none of permute_ratio, conf_ints, std_errs, boot_ratios and never
\* starts the bootstrap test.
C4_UnsupportedRotationFailsFirst ==
    /\ (Engine \in {"perm", "boot"} /\ Unsupported(eargs.rotate_method) /\ eargs.niter >= 1) =>
          /\ pc \in {"perm", "boot", "error"}
          /\ pc = "error" => err = "NotImplementedError"
          /\ i = 0
          /\ ret = Unset
          /\ Engine = "perm" => greatersum = Zeros(eargs.s)
          /\ Engine = "boot" => SlotsEmpty(left_sv_sampled) /\ SlotsEmpty(right_sv_sampled)
    /\ (caller = "init" /\ Unsupported(cargs.rotate_method) /\ cargs.nperm >= 1) =>
          /\ self.permute_ratio = Unset /\ self.conf_ints = Unset
          /\ self.std_errs = Unset /\ self.boot_ratios = Unset
          /\ Len(calls) = 1

\* C4 witness: a constructor call with an unsupported mode has failed in the
\* first iteration of the permutation test, after resampling
C4_Witness ==
    /\ caller = "init" /\ pc = "error" /\ err = "NotImplementedError"
    /\ cargs.nperm >= 1 /\ cargs.rotate_method = MaxRot
    /\ X_new # Unset /\ self.dist # Unset

\* C9: the constructor calls _permutation_test first and then, only once
\* that has returned and permute_ratio is stored, _bootstrap_test, each once
\* and with the constructor's X, Y, U, s, V, cond_order, ngroups, preprocess
\* and rotate_method; if the permutation test raises, no bootstrap call is made.
C9_PermutationThenBootstrapOnce ==
    caller = "init" =>
        /\ Len(calls) \in {1, 2}
        /\ calls[1] = <<"perm", PermArgs(cargs)>>
        /\ Len(calls) = 1 =>
              /\ pc \in {"perm", "error"}
              /\ self.permute_ratio = Unset
              /\ left_sv_sampled = Unset /\ right_sv_sampled = Unset
        /\ Len(calls) = 2 =>
              /\ pc \in {"boot", "done", "error"}
              /\ calls[2][1] = "boot"
              /\ calls[2][2].niter = cargs.nboot
              /\ \A f \in {"X", "Y", "U", "s", "V", "cond_order", "ngroups",
                           "preprocess", "rotate_method"} :
                    calls[2][2][f] = calls[1][2][f] /\ calls[2][2][f] = cargs[f]
              /\ self.permute_ratio = PermuteRatio(greatersum, cargs.nperm)
        /\ pc = "done" => Len(calls) = 2

\* C9 witness: a constructor call in rotation mode 2 has finished both tests
C9_Witness ==
    /\ caller = "init" /\ pc = "done" /\ cargs.rotate_method = 2
    /\ cargs.nperm = 2 /\ cargs.nboot = 2
    /\ self.boot_ratios # Unset

\* C10 as claimed: with more than one group every operation ends in
\* NotImplementedError and returns nothing: the driver's static methods and
\* constructor, and both engines before completing an iteration.
C10_MultiGroupAlwaysUnimplemented ==
    /\ (caller \in DriverStatics /\ cargs.ngroups > 1) =>
          pc = "error" /\ err = "NotImplementedError"
    /\ (caller = "driver" /\ cargs.Y = None /\ Len(cargs.groups_sizes) > 1) =>
          pc = "error" /\ err = "NotImplementedError"
    /\ (Engine \in {"perm", "boot"} /\ eargs.ngroups > 1) =>
          /\ i = 0
          /\ pc # "done"
          /\ pc = "error" => err = "NotImplementedError"

\* C10 as amended: with more than one group the driver's _mean_center,
\* _run_pls and _compute_latents, and its constructor (Y being None), end in
\* NotImplementedError having computed nothing; the engines never test
\* ngroups: whatever it is, they raise NotImplementedError for an
\* unsupported rotate_method only.
C10_DriverRejectsMultiGroup ==
    /\ (caller \in DriverStatics /\ cargs.ngroups > 1) =>
          pc = "error" /\ err = "NotImplementedError" /\ ret = Unset
    /\ (caller = "driver" /\ cargs.Y = None /\ Len(cargs.groups_sizes) > 1) =>
          /\ pc = "error" /\ err = "NotImplementedError"
          /\ drv.X_mc = Unset /\ drv.U = Unset /\ drv.X_latent = Unset
          /\ drv.resample_tests = Unset
    /\ (Engine \in {"perm", "boot"} /\ err = "NotImplementedError") =>
          Unsupported(eargs.rotate_method)

\* C10 witness: _compute_latents called with two groups has raised
C10_Witness ==
    /\ caller = "_compute_latents" /\ cargs.ngroups = 2
    /\ pc = "error" /\ err = "NotImplementedError"

\* C11: the condition order the driver's constructor generates (cond_order
\* not given) has one sub-list per group, the i-th of length
\* groups_sizes[i] * num_conditions, listing the labels 0 .. num_conditions-1
\* in ascending order, each repeated groups_sizes[i] times.
C11_CondOrderPerGroup ==
    (caller = "driver" /\ cargs.Y = None /\ cargs.cond_order = None
        /\ cargs.groups_sizes # None) =>
        /\ Len(drv.cond_order) = Len(cargs.groups_sizes)
        /\ \A g \in 1..Len(drv.cond_order) :
              g <= Len(cargs.groups_sizes) =>
                 /\ Len(drv.cond_order[g]) = cargs.groups_sizes[g] * cargs.num_conditions
                 /\ \A q \in 1..Len(drv.cond_order[g]) :
                       drv.cond_order[g][q] = (q - 1) \div cargs.groups_sizes[g]

\* v / se for an entry v of V and its standard error se, as sg * sqrt(sqnum / sqden)
CoefficientOverStdErr(v, se) ==
    IF se = NaN THEN NaN
    ELSE IF se.sqnum = 0 THEN (IF v = 0 THEN NaN ELSE Inf)
    ELSE [kind |-> "fin", sg |-> IF v = 0 THEN 0 ELSE IF v > 0 THEN 1 ELSE -1,
          sqnum |-> v * v * se.sqden, sqden |-> se.sqnum]

\* two quotients denote the same number
SameNumber(a, b) ==
    /\ a.kind = b.kind
    /\ a.kind = "fin" => a.sg = b.sg /\ a.sqnum * b.sqden = b.sqnum * a.sqden

\* C12: the bootstrap ratio returned by a call with niter >= 1 is, at every
\* position, the entry of the reference V divided by its standard error.
C12_RatioIsCoefficientOverStdErr ==
    (BootDone /\ eargs.niter >= 1) =>
        \A p \in Positions(Shape(eargs.V)) :
            SameNumber(ret[3][p[1]][p[2]],
                       CoefficientOverStdErr(eargs.V[p[1]][p[2]], ret[2][p[1]][p[2]]))

\* C13: no key outside _pls_types is ever registered; once the modules are
\* imported ResampleTest has "mct" and "rb" and PLSBase has "mct"; and a call
\* of _create ends in one of three ways: a registered key gives an instance
\* of the class registered under it (given valid constructor arguments, the
\* constructor can fail on a singular matrix only), a key of _pls_types that
\* is not registered raises NotImplementedError, any other key ValueError.
C13_CreateOutcomes ==
    /\ \A cls \in {"ResampleTest", "PLSBase"} : DOMAIN subclasses[cls] \subseteq pls_types
    /\ pc # "load" =>
          /\ DOMAIN subclasses.ResampleTest = {"mct", "rb"}
          /\ DOMAIN subclasses.PLSBase = {"mct"}
    /\ request # None =>
          LET reg == subclasses[request[1]]
              key == request[2]
          IN IF key \in DOMAIN reg
             THEN IF reg[key] = "_ResampleTestTaskPLS"
                  THEN /\ request[1] = "ResampleTest" /\ caller = "init"
                       /\ (pc = "error" /\ cargs.rotate_method \in {0, 1, 2}) =>
                              err = "LinAlgError"
                  ELSE /\ request[1] = "PLSBase" /\ caller = "driver"
                       /\ (cargs.Y = None /\ Len(cargs.groups_sizes) = 1) => pc # "error"
             ELSE /\ pc = "error" /\ caller = "_create"
                  /\ err = IF key \in pls_types THEN "NotImplementedError" ELSE "ValueError"

\* the step a completed iteration of the permutation test makes
PermStep == pc = "perm" /\ i' = i + 1

Written(slots, k) == slots[k] # Empty

\* C15: iteration i of the bootstrap test writes slot i of the two slot
\* arrays, not written before, and changes no other slot; while the loop
\* runs exactly the slots of the completed iterations are written; the
\* statistics are computed when every slot is written, and the return
\* changes no slot.
C15_SlotsWrittenOnce ==
    /\ [][(pc = "boot" /\ Engine = "boot") =>
             /\ \A k \in 1..Len(left_sv_sampled) :
                   k # i + 1 => /\ left_sv_sampled'[k] = left_sv_sampled[k]
                                /\ right_sv_sampled'[k] = right_sv_sampled[k]
             /\ i' = i + 1 =>
                   /\ ~Written(left_sv_sampled, i + 1) /\ ~Written(right_sv_sampled, i + 1)
                   /\ Written(left_sv_sampled', i + 1) /\ Written(right_sv_sampled', i + 1)
             /\ pc' = "done" =>
                   /\ left_sv_sampled' = left_sv_sampled
                   /\ right_sv_sampled' = right_sv_sampled
                   /\ \A k \in 1..eargs.niter :
                         Written(left_sv_sampled, k) /\ Written(right_sv_sampled, k)]_vars
    /\ []((Engine = "boot" /\ pc \in {"boot", "done"}) =>
             /\ Len(left_sv_sampled) = eargs.niter /\ Len(right_sv_sampled) = eargs.niter
             /\ \A k \in 1..eargs.niter :
                   /\ Written(left_sv_sampled, k) <=> k <= i
                   /\ Written(right_sv_sampled, k) <=> k <= i)
    /\ []((Engine = "boot" /\ pc = "done") => i = eargs.niter)

\* C15 witness: a call of MaxIter iterations returned with different
\* vectors in its first and last slots
C15_Witness ==
    /\ BootDone /\ eargs.niter = MaxIter
    /\ left_sv_sampled[1] # left_sv_sampled[MaxIter]
    /\ right_sv_sampled[1] # right_sv_sampled[MaxIter]

\* C16: in mode 2, for the same preprocessed matrix and the same reference
\* V, the s_hat either engine derives is the s_hat the other engine derives,
\* and has one entry per column (component) of V.
C16_DerivedSingularValuesAgree ==
    pc = "derived" =>
        /\ s_hat = (IF Engine = "perm" THEN BootDerived(eargs.permuted, eargs.V)
                    ELSE PermDerived(eargs.permuted, eargs.V))
        /\ Len(s_hat) = Len(eargs.V[1])

\* C17: in modes 0, 1 and 2 the vectors an iteration of the bootstrap test
\* stores are shaped like U and V, the left ones laid out rows x components
\* and the right ones variables x components (a 1 x 1 matrix has one layout
\* only), and the returned interval, standard errors and ratios have the
\* shapes of U, V and V.
C17_StoredVectorsOrientedAsReference ==
    (Engine = "boot" /\ pc \in {"boot", "done"} /\ i >= 1
        /\ eargs.rotate_method \in {0, 1, 2}) =>
        LET d == BootRotate(eargs.rotate_method, eargs.preprocess.shape,
                            eargs.U, Shape(eargs.V))
            a == BootAxes(eargs.rotate_method)
        IN /\ Shape(left_sv_sampled[i]) = eargs.U
           /\ Shape(right_sv_sampled[i]) = Shape(eargs.V)
           /\ a.U_hat = <<"rows", "components">> \/ d.U_hat = <<1, 1>>
           /\ a.V_hat = <<"variables", "components">> \/ d.V_hat = <<1, 1>>
           /\ pc = "done" =>
                 LET res == IF caller = "init"
                            THEN <<self.conf_ints, self.std_errs, self.boot_ratios>>
                            ELSE ret
                 IN /\ Shape(res[1][1]) = eargs.U /\ Shape(res[1][2]) = eargs.U
                    /\ Shape(res[2]) = Shape(eargs.V) /\ Shape(res[3]) = Shape(eargs.V)

====
